---- MODULE Spec2Model ----
(***************************************************************************)
(* Model of the code-coverage bot's commit-coverage pipeline               *)
(* (bot/code_coverage_bot/commit_coverage.py, generate) and of its         *)
(* uploader (bot/code_coverage_bot/uploader.py).                           *)
(*                                                                         *)
(* Spec          one run of generate, followed by at most one more run in  *)
(*               the same environment                                      *)
(* SpecUploader  a bounded number of gcp calls on one bucket, and the      *)
(*               gcp_covdir_exists checks between them                     *)
(***************************************************************************)
EXTENDS Integers, Sequences, FiniteSets, TLC

(***************************************************************************)
(* Bounds of the model.                                                    *)
(***************************************************************************)
\* longest report listing of the bucket
MaxReports == 2
\* longest relevance set returned for one head
MaxRel == 2
\* most gcp calls made on the bucket
MaxCalls == 2
\* Nodes of a covdir report.
MaxNodes == 4

\* commit identifiers
Commits == {"c1", "c2", "c3"}

(***************************************************************************)
(* Values.                                                                 *)
(***************************************************************************)
\* Python's None, stored as JSON null.
None == [none |-> TRUE]

\* The "overall" sentinel of platform and suite.
DEFAULT_FILTER == "-"

\* The reports a bucket can hold: an overall report of each commit, and
\* two reports of one platform or one suite.
StoredReports ==
    {<<c, DEFAULT_FILTER, DEFAULT_FILTER>> : c \in Commits}
    \cup {<<"c3", "linux", DEFAULT_FILTER>>, <<"c2", DEFAULT_FILTER, "mochitest">>}

\* The 'paths' mappings an attribution result can hold: file path ->
\* per-path record.
PathMaps ==
    {[p \in {} |-> None],
     [p \in {"a.c", "b.c"} |->
         IF p = "a.c"
         THEN [lines_added |-> 10, lines_covered |-> 7, lines_unknown |-> 1]
         ELSE [lines_added |-> 5, lines_covered |-> 5, lines_unknown |-> 0]]}

\* What the attribution returns for one changeset.
Coverages == {[paths |-> m] : m \in PathMaps}

Range(s) == {s[k] : k \in 1..Len(s)}

\* Sequences of distinct elements of S of length at most n.
RECURSIVE DistinctSeqs(_, _)
DistinctSeqs(S, n) ==
    IF n = 0 THEN {<<>>}
    ELSE LET shorter == DistinctSeqs(S, n - 1)
         IN  shorter \cup
             UNION {{Append(s, x) : x \in S \ Range(s)} :
                        s \in {t \in shorter : Len(t) = n - 1}}

\* The empty index {}.
EmptyIndex == [c \in {} |-> None]

\* No head attributed yet.
NoAttribution == [c \in {} |-> [head |-> "", coverage |-> None]]

\* A file of the working directory, or the published artifact: absent, or
\* holding a compressed JSON index, or holding bytes that do not decode.
NoFile == [present |-> FALSE, valid |-> TRUE, data |-> EmptyIndex]
IndexFile(index) == [present |-> TRUE, valid |-> TRUE, data |-> index]
CorruptFile == [present |-> TRUE, valid |-> FALSE, data |-> EmptyIndex]

\* The listings list_reports can return: (changeset, platform, suite), one
\* per blob of the bucket.
Listings == DistinctSeqs(StoredReports, MaxReports)

\* The relevance sets the repository server can return for a head: a stack
\* of other commits, in topological order, and then the head itself.
RelevanceSets(head) ==
    {Append(s, head) : s \in DistinctSeqs(Commits \ {head}, MaxRel - 1)}

\* The results PhabricatorUploader.generate can return for a relevance set:
\* a coverage for some of its changesets.
AttributionResults(rel) == UNION {[D -> Coverages] : D \in SUBSET Range(rel)}

\* The indices an earlier run can have published.
PublishedIndices ==
    {EmptyIndex} \cup
    {("c1" :> v) : v \in {None, [added |-> 10, covered |-> 7, unknown |-> 1]}}

VARIABLES
    remote,                 \* the published artifact: [status, file]
    file,                   \* commit_coverage.json.zst of the working directory
    reports,                \* the listing of the bucket
    pc,                     \* position in generate
    commit_coverage,        \* the in-memory index
    changesets_to_analyze,  \* the work queue
    i,                      \* position of the head in the work queue
    changesets,             \* relevance set of the head
    results,                \* attribution result of the head
    j,                      \* members of the relevance set merged so far
    second,                 \* TRUE in the second run
    loaded,                 \* history: the index as loaded by this run
    file_at_load,           \* history: the file as the load step left it
    analyzed,               \* history: heads whose report was asked for
    writes,                 \* history: writes of the file after the load step
    prev,                   \* history: what the first run left
    attributed              \* history: commit -> the last head attributed
                            \* with the commit in its relevance set, and
                            \* what its result held for the commit

generate_vars == <<remote, file, reports, pc, commit_coverage,
                   changesets_to_analyze, i, changesets, results, j, second,
                   loaded, file_at_load, analyzed, writes, prev,
                   attributed>>

VARIABLES
    bucket,     \* the blobs of the bucket: path -> [data, content_type,
                \* content_encoding]
    upc,        \* position in gcp
    args,       \* the arguments of the gcp call
    attempts,   \* requests made by the gcp_ingest call
    ingest,     \* how the gcp_ingest call stands
    params,     \* the query parameters of the last request
    calls,      \* gcp calls made
    failures,   \* history: failed requests of the gcp_ingest call
    last_response,  \* history: how the last request ended
    uploaded,   \* history: the descriptors whose blob was written
    checked,    \* history: the last gcp_covdir_exists call and its result
    latest,     \* history: path -> the report of the last upload under it
    before,     \* history: the bucket when the call began
    ops,        \* history: uploads and patches attempted by the call
    waits,      \* history: the waits of the gcp_ingest call
    first_exponent  \* the exponent tenacity uses after the first attempt

uploader_vars == <<bucket, upc, args, attempts, ingest, params, calls,
                   failures, last_response, uploaded, checked, latest,
                   before, ops, waits, first_exponent>>

VARIABLES
    covdir,     \* the report given to covdir_paths
    returned,   \* what covdir_paths returned
    cpc         \* position of the covdir_paths call

covdir_vars == <<covdir, returned, cpc>>

vars == <<generate_vars, uploader_vars, covdir_vars>>

(***************************************************************************)
(* The uploader: values.                                                   *)
(***************************************************************************)
\* The descriptors and the reports of the gcp calls.
Descriptors ==
    {[repository |-> "mozilla-central", revision |-> "abc123",
      platform |-> k[1], suite |-> k[2]] :
         k \in {<<"linux", "mochitest">>, <<"linux", DEFAULT_FILTER>>,
                <<DEFAULT_FILTER, DEFAULT_FILTER>>, <<"linux", "">>,
                <<"", "mochitest">>}}
Reports == {"report-1", "report-2"}

NoBlobs == [path \in {} |-> None]
NoDescriptor == [repository |-> "", revision |-> "", platform |-> "", suite |-> ""]
NoArgs == [fn |-> "none", descriptor |-> NoDescriptor, report |-> ""]
NoOps == [upload |-> 0, patch |-> 0]
NoReports == [path \in {} |-> ""]
NoParams == [name \in {} |-> ""]
NoCheck == [asked |-> FALSE, descriptor |-> NoDescriptor, found |-> FALSE]

(***************************************************************************)
(* generate: the load step.                                                *)
(***************************************************************************)
\* utils.download_file(url, path): writes the body to path, or raises.
download_file(rem, f, net) ==
    IF rem.status = 200 /\ net = "ok"
    THEN [raised |-> FALSE, file |-> rem.file]
    ELSE [raised |-> TRUE, file |-> f]

\* The HEAD request and the conditional download.
fetch_index(rem, f, net) ==
    IF rem.status # 404
    THEN download_file(rem, f, net)
    ELSE [raised |-> FALSE, file |-> f]

\* Decompress and parse the file; a missing file gives the empty index.
read_index(f) ==
    IF ~f.present THEN [raised |-> FALSE, index |-> EmptyIndex]
    ELSE IF ~f.valid THEN [raised |-> TRUE, index |-> EmptyIndex]
    ELSE [raised |-> FALSE, index |-> f.data]

Load ==
    /\ pc = "load"
    /\ UNCHANGED <<uploader_vars, covdir_vars>>
    /\ \E net \in {"ok", "fail"} :
         LET fetched == fetch_index(remote, file, net)
             parsed == read_index(fetched.file)
         IN  /\ file' = fetched.file
             /\ file_at_load' = fetched.file
             /\ IF fetched.raised \/ parsed.raised
                THEN /\ pc' = "aborted"
                     /\ UNCHANGED <<commit_coverage, loaded>>
                ELSE /\ pc' = "discover"
                     /\ commit_coverage' = parsed.index
                     /\ loaded' = parsed.index
    /\ UNCHANGED <<remote, reports, changesets_to_analyze, i, changesets,
                   results, j, second, analyzed, writes, prev, attributed>>

(***************************************************************************)
(* generate: discovery.                                                    *)
(***************************************************************************)
\* Mutant: the suite of a report is not looked at.
overall_changesets_any_suite(listing) ==
    LET kept == SelectSeq(listing, LAMBDA r : r[2] = DEFAULT_FILTER)
    IN  [k \in 1..Len(kept) |-> kept[k][1]]

\* The changesets of the "overall" reports, in listing order.
overall_changesets(listing) ==
    LET kept == SelectSeq(listing, LAMBDA r : r[2] = DEFAULT_FILTER
                                              /\ r[3] = DEFAULT_FILTER)
    IN  [k \in 1..Len(kept) |-> kept[k][1]]

\* Mutant: nothing is skipped.
skip_analyzed_nothing(queue, index) == queue

\* Skip already analyzed changesets.
skip_analyzed(queue, index) ==
    SelectSeq(queue, LAMBDA c : c \notin DOMAIN index)

Discover ==
    /\ pc = "discover"
    /\ UNCHANGED <<uploader_vars, covdir_vars>>
    /\ changesets_to_analyze' =
           skip_analyzed(overall_changesets(reports), commit_coverage)
    /\ i' = 1
    /\ pc' = IF changesets_to_analyze' = <<>> THEN "persist" ELSE "download"
    /\ UNCHANGED <<remote, file, reports, commit_coverage, changesets, results,
                   j, second, loaded, file_at_load, analyzed, writes, prev,
                   attributed>>

(***************************************************************************)
(* generate: one head of the work queue.                                   *)
(***************************************************************************)
\* download_report of the head's report succeeded and the report parsed.
Download ==
    /\ pc = "download"
    /\ UNCHANGED <<uploader_vars, covdir_vars>>
    /\ analyzed' = Append(analyzed, changesets_to_analyze[i])
    /\ pc' = "relevance"
    /\ UNCHANGED <<remote, file, reports, commit_coverage,
                   changesets_to_analyze, i, changesets, results, j, second,
                   loaded, file_at_load, writes, prev, attributed>>

\* hgmo_server.get_automation_relevance_changesets(head)
Relevance ==
    /\ pc = "relevance"
    /\ UNCHANGED <<uploader_vars, covdir_vars>>
    /\ \E rel \in RelevanceSets(changesets_to_analyze[i]) : changesets' = rel
    /\ j' = 0
    /\ pc' = "attribute"
    /\ UNCHANGED <<remote, file, reports, commit_coverage,
                   changesets_to_analyze, i, results, second, loaded,
                   file_at_load, analyzed, writes, prev, attributed>>

\* results.get(node)
get(res, node) == IF node \in DOMAIN res THEN res[node] ELSE None

\* phabricatorUploader.generate(hgmo_server, report, changesets)
Attribute ==
    /\ pc = "attribute"
    /\ UNCHANGED <<uploader_vars, covdir_vars>>
    /\ \E res \in AttributionResults(changesets) :
         /\ results' = res
         /\ attributed' =
                [c \in Range(changesets) |->
                    [head |-> changesets_to_analyze[i],
                     coverage |-> get(res, c)]] @@ attributed
    /\ pc' = "merge"
    /\ UNCHANGED <<remote, file, reports, commit_coverage,
                   changesets_to_analyze, i, changesets, j, second, loaded,
                   file_at_load, analyzed, writes, prev>>

\* sum(c[field] for c in coverage["paths"].values())
RECURSIVE sum_lines(_, _)
sum_lines(paths, field) ==
    IF DOMAIN paths = {} THEN 0
    ELSE LET p == CHOOSE q \in DOMAIN paths : TRUE
         IN  paths[p][field]
             + sum_lines([q \in DOMAIN paths \ {p} |-> paths[q]], field)

\* The entry of a coverage: the sums over its paths.
entry(coverage) ==
    [added |-> sum_lines(coverage.paths, "lines_added"),
     covered |-> sum_lines(coverage.paths, "lines_covered"),
     unknown |-> sum_lines(coverage.paths, "lines_unknown")]

\* Mutant: a changeset without coverage is skipped, nothing is recorded.
merge_entry_skip_miss(index, res, node) ==
    IF get(res, node) = None THEN index
    ELSE (node :> entry(get(res, node))) @@ index

\* Mutant: a changeset without coverage starts the index afresh.
merge_entry_reset(index, res, node) ==
    IF get(res, node) = None THEN (node :> None)
    ELSE (node :> entry(get(res, node))) @@ index

\* Mutant: the covered lines are summed from lines_added.
merge_entry_added_as_covered(index, res, node) ==
    IF get(res, node) = None THEN (node :> None) @@ index
    ELSE (node :> [entry(get(res, node)) EXCEPT
                       !.covered = sum_lines(get(res, node).paths, "lines_added")])
         @@ index

\* Mutant: the index holds the last changeset only.
merge_entry_fresh(index, res, node) ==
    IF get(res, node) = None THEN (node :> None)
    ELSE (node :> entry(get(res, node)))

\* Mutant: the value of a key the index holds is kept.
merge_entry_write_once(index, res, node) ==
    IF node \in DOMAIN index THEN index
    ELSE IF get(res, node) = None THEN (node :> None) @@ index
    ELSE (node :> entry(get(res, node))) @@ index

\* The body of the loop over the relevance set, for one changeset.
merge_entry(index, res, node) ==
    LET coverage == get(res, node)
    IN  IF coverage = None
        THEN (node :> None) @@ index
        ELSE (node :> entry(coverage)) @@ index

Merge ==
    /\ pc = "merge"
    /\ UNCHANGED <<uploader_vars, covdir_vars>>
    /\ commit_coverage' = merge_entry(commit_coverage, results, changesets[j + 1])
    /\ j' = j + 1
    /\ pc' = IF j' < Len(changesets) THEN "merge" ELSE "next"
    /\ UNCHANGED <<remote, file, reports, changesets_to_analyze, i, changesets,
                   results, second, loaded, file_at_load, analyzed, writes,
                   prev, attributed>>

\* Mutant: the index is written to the file after every head.
NextHead_checkpoint ==
    /\ pc = "next"
    /\ UNCHANGED <<uploader_vars, covdir_vars>>
    /\ IF i < Len(changesets_to_analyze)
       THEN pc' = "download" /\ i' = i + 1
       ELSE pc' = "persist" /\ i' = i
    /\ changesets' = <<>>
    /\ results' = EmptyIndex
    /\ j' = 0
    /\ file' = IndexFile(commit_coverage)
    /\ UNCHANGED <<remote, reports, commit_coverage, changesets_to_analyze,
                   second, loaded, file_at_load, analyzed, writes, prev,
                   attributed>>

\* The loop over the work queue moves to the next head, or ends.  The
\* relevance set and the results of the head that ended are not read again.
NextHead ==
    /\ pc = "next"
    /\ UNCHANGED <<uploader_vars, covdir_vars>>
    /\ IF i < Len(changesets_to_analyze)
       THEN pc' = "download" /\ i' = i + 1
       ELSE pc' = "persist" /\ i' = i
    /\ changesets' = <<>>
    /\ results' = EmptyIndex
    /\ j' = 0
    /\ UNCHANGED <<remote, file, reports, commit_coverage,
                   changesets_to_analyze, second, loaded, file_at_load,
                   analyzed, writes, prev, attributed>>

\* list_reports, download_report, the relevance lookup or the attribution
\* raises: nothing in generate catches it.
Raise ==
    /\ pc \in {"discover", "download", "relevance", "attribute"}
    /\ UNCHANGED <<uploader_vars, covdir_vars>>
    /\ pc' = "aborted"
    /\ UNCHANGED <<remote, file, reports, commit_coverage,
                   changesets_to_analyze, i, changesets, results, j, second,
                   loaded, file_at_load, analyzed, writes, prev, attributed>>

(***************************************************************************)
(* generate: the persist step.                                             *)
(***************************************************************************)
Persist ==
    /\ pc = "persist"
    /\ UNCHANGED <<uploader_vars, covdir_vars>>
    /\ file' = IndexFile(commit_coverage)
    /\ writes' = writes + 1
    /\ pc' = "done"
    /\ UNCHANGED <<remote, reports, commit_coverage, changesets_to_analyze, i,
                   changesets, results, j, second, loaded, file_at_load,
                   analyzed, prev, attributed>>

(***************************************************************************)
(* The next run of the cron task: the file of the run that ended is        *)
(* published as the artifact or not, the working directory is kept, and a  *)
(* new report may have been stored.                                        *)
(***************************************************************************)
Rerun ==
    /\ pc = "done"
    /\ UNCHANGED <<uploader_vars, covdir_vars>>
    /\ ~second
    /\ second' = TRUE
    /\ prev' = [index |-> file.data, reports |-> reports]
    /\ \E published \in BOOLEAN :
         remote' = IF published THEN [status |-> 200, file |-> file]
                   ELSE [status |-> 404, file |-> NoFile]
    /\ \/ reports' = reports
       \/ /\ Len(reports) < MaxReports
          /\ \E c \in Commits :
               /\ <<c, DEFAULT_FILTER, DEFAULT_FILTER>> \notin Range(reports)
               /\ reports' = Append(reports, <<c, DEFAULT_FILTER, DEFAULT_FILTER>>)
    /\ pc' = "load"
    /\ commit_coverage' = EmptyIndex
    /\ changesets_to_analyze' = <<>>
    /\ i' = 1
    /\ changesets' = <<>>
    /\ results' = EmptyIndex
    /\ j' = 0
    /\ loaded' = EmptyIndex
    /\ analyzed' = <<>>
    /\ writes' = 0
    /\ attributed' = NoAttribution
    /\ UNCHANGED <<file, file_at_load>>

(***************************************************************************)
(* The uploader: gcp.                                                      *)
(***************************************************************************)
\* Mutant: platform and suite are separated by an underscore.
GCP_COVDIR_PATH_underscore ==
    <<[field |-> "repository"], [lit |-> "/"], [field |-> "revision"],
      [lit |-> "/"], [field |-> "platform"], [lit |-> "_"],
      [field |-> "suite"], [lit |-> ".json.zstd"]>>

\* "{repository}/{revision}/{platform}:{suite}.json.zstd", as the literal
\* texts and the replacement fields of the format string.
GCP_COVDIR_PATH ==
    <<[field |-> "repository"], [lit |-> "/"], [field |-> "revision"],
      [lit |-> "/"], [field |-> "platform"], [lit |-> ":"],
      [field |-> "suite"], [lit |-> ".json.zstd"]>>

\* str.format with keyword arguments.
RECURSIVE format(_, _)
format(template, kwargs) ==
    IF template = <<>> THEN ""
    ELSE (IF "field" \in DOMAIN Head(template)
          THEN kwargs[Head(template).field]
          ELSE Head(template).lit) \o format(Tail(template), kwargs)

\* compressor.compress(report)
compress(report) == [zstd |-> report]

\* Mutant: a blob that exists is kept as it is.
upload_from_string_keep(blobs, path, archive) ==
    blobs @@ (path :> [data |-> archive, content_type |-> "text/plain",
                       content_encoding |-> ""])

\* blob.upload_from_string(archive): the blob is created or replaced, with
\* the metadata of a plain upload.
upload_from_string(blobs, path, archive) ==
    (path :> [data |-> archive, content_type |-> "text/plain",
              content_encoding |-> ""]) @@ blobs

\* Mutant: the patch sets the content type only.
patch_type_only(blobs, path) ==
    [blobs EXCEPT ![path].content_type = "application/json"]

\* blob.content_type = "application/json"; blob.content_encoding = "zstd";
\* blob.patch()
patch(blobs, path) ==
    [blobs EXCEPT ![path].content_type = "application/json",
                  ![path].content_encoding = "zstd"]

\* gcp up to the upload of the archive.
gcp_upload ==
    /\ upc \in {"idle", "returned", "raised"}
    /\ calls < MaxCalls
    /\ calls' = calls + 1
    /\ \E d \in Descriptors, report \in Reports, stored \in BOOLEAN :
         LET path == format(GCP_COVDIR_PATH, d)
         IN  /\ args' = [fn |-> "gcp", descriptor |-> d, report |-> report]
             /\ IF stored
                THEN /\ bucket' = upload_from_string(bucket, path, compress(report))
                     /\ uploaded' = uploaded \cup {d}
                     /\ latest' = (path :> report) @@ latest
                     /\ upc' = "patch"
                ELSE /\ upc' = "raised"
                     /\ UNCHANGED <<bucket, uploaded, latest>>
    /\ before' = bucket
    /\ ops' = [upload |-> 1, patch |-> 0]
    /\ attempts' = 0
    /\ failures' = 0
    /\ ingest' = "none"
    /\ last_response' = "none"
    /\ params' = NoParams
    /\ waits' = <<>>
    /\ checked' = NoCheck
    /\ UNCHANGED first_exponent
    /\ UNCHANGED <<generate_vars, covdir_vars>>

\* Mutant: a failure of the patch is passed over.
gcp_patch_ignore_failure ==
    /\ upc = "patch"
    /\ \E patched \in BOOLEAN :
         LET path == format(GCP_COVDIR_PATH, args.descriptor)
         IN  /\ bucket' = IF patched THEN patch(bucket, path) ELSE bucket
             /\ upc' = "ingest"
             /\ ingest' = "running"
    /\ ops' = [ops EXCEPT !.patch = ops.patch + 1]
    /\ UNCHANGED <<args, attempts, params, calls, failures, last_response,
                   uploaded, checked, latest, before, waits, first_exponent>>
    /\ UNCHANGED <<generate_vars, covdir_vars>>

\* gcp: the headers of the blob are set and patched.
gcp_patch ==
    /\ upc = "patch"
    /\ \E patched \in BOOLEAN :
         LET path == format(GCP_COVDIR_PATH, args.descriptor)
         IN  IF patched
             THEN /\ bucket' = patch(bucket, path)
                  /\ upc' = "ingest"
                  /\ ingest' = "running"
             ELSE /\ upc' = "raised"
                  /\ UNCHANGED <<bucket, ingest>>
    /\ ops' = [ops EXCEPT !.patch = ops.patch + 1]
    /\ UNCHANGED <<args, attempts, params, calls, failures, last_response,
                   uploaded, checked, latest, before, waits, first_exponent>>
    /\ UNCHANGED <<generate_vars, covdir_vars>>

(***************************************************************************)
(* The uploader: gcp_zero_coverage.                                        *)
(***************************************************************************)
\* Mutant: the zero-coverage report goes under the key of a covdir report.
ZERO_COVERAGE_PATH_covdir == "mozilla-central/abc123/linux:mochitest.json.zstd"

\* path = "zero_coverage_report.json.zstd"
ZERO_COVERAGE_PATH == "zero_coverage_report.json.zstd"

\* gcp_zero_coverage up to the upload of the archive.
gcp_zero_coverage_upload ==
    /\ upc \in {"idle", "returned", "raised"}
    /\ calls < MaxCalls
    /\ calls' = calls + 1
    /\ \E report \in Reports, stored \in BOOLEAN :
         LET path == ZERO_COVERAGE_PATH
         IN  /\ args' = [fn |-> "gcp_zero_coverage",
                         descriptor |-> NoDescriptor, report |-> report]
             /\ IF stored
                THEN /\ bucket' = upload_from_string(bucket, path, compress(report))
                     /\ latest' = (path :> report) @@ latest
                     /\ upc' = "zero_patch"
                ELSE /\ upc' = "raised"
                     /\ UNCHANGED <<bucket, latest>>
    /\ before' = bucket
    /\ ops' = [upload |-> 1, patch |-> 0]
    /\ attempts' = 0
    /\ failures' = 0
    /\ ingest' = "none"
    /\ last_response' = "none"
    /\ params' = NoParams
    /\ waits' = <<>>
    /\ checked' = NoCheck
    /\ UNCHANGED <<uploaded, first_exponent>>
    /\ UNCHANGED <<generate_vars, covdir_vars>>

\* gcp_zero_coverage: the headers of the blob are set and patched, and the
\* blob is returned.
gcp_zero_coverage_patch ==
    /\ upc = "zero_patch"
    /\ \E patched \in BOOLEAN :
         LET path == ZERO_COVERAGE_PATH
         IN  IF patched
             THEN /\ bucket' = patch(bucket, path)
                  /\ upc' = "returned"
             ELSE /\ upc' = "raised"
                  /\ UNCHANGED bucket
    /\ ops' = [ops EXCEPT !.patch = ops.patch + 1]
    /\ UNCHANGED <<args, attempts, ingest, params, calls, failures,
                   last_response, uploaded, checked, latest, before, waits,
                   first_exponent>>
    /\ UNCHANGED <<generate_vars, covdir_vars>>

(***************************************************************************)
(* The uploader: gcp_ingest, and what gcp does with its outcome.           *)
(***************************************************************************)
\* tenacity.stop_after_attempt(10)
stop_after_attempt == 10

\* tenacity.wait_exponential(multiplier=1, min=16, max=64)
wait_multiplier == 1
wait_min == 16
wait_max == 64

\* Mutant: the platform is sent whatever it is.
ingest_params_platform_always(d) ==
    LET base == ("repository" :> d.repository) @@ ("changeset" :> d.revision)
        with_platform == ("platform" :> d.platform) @@ base
    IN  IF d.suite # "" THEN ("suite" :> d.suite) @@ with_platform
        ELSE with_platform

\* The query parameters of the request.
ingest_params(d) ==
    LET base == ("repository" :> d.repository) @@ ("changeset" :> d.revision)
        with_platform == IF d.platform # ""
                         THEN ("platform" :> d.platform) @@ base ELSE base
    IN  IF d.suite # "" THEN ("suite" :> d.suite) @@ with_platform
        ELSE with_platform

\* What one request raises: nothing, requests.HTTPError from
\* raise_for_status, or requests.ConnectionError from requests.get.
exception_of(response) ==
    IF response = "ok" THEN "none"
    ELSE IF response = "error status" THEN "HTTPError"
    ELSE "ConnectionError"

\* Mutant: the call gives up after the attempt that follows the 10th.
retry_one_more(attempt_number, response) ==
    IF response = "ok" THEN "returned"
    ELSE IF attempt_number > stop_after_attempt THEN exception_of(response)
    ELSE "running"

\* The retry decorator: how gcp_ingest stands after an attempt.  It
\* returns the response, or re-raises the exception of the last attempt,
\* or goes on to another attempt.
retry(attempt_number, response) ==
    IF response = "ok" THEN "returned"
    ELSE IF attempt_number >= stop_after_attempt THEN exception_of(response)
    ELSE "running"

\* Mutant: the wait is not raised to the minimum.
wait_exponential_no_min(attempt_number) ==
    LET exp == 2 ^ (attempt_number - 1 + first_exponent)
        result == wait_multiplier * exp
    IN  IF result < wait_max THEN result ELSE wait_max

\* The wait of the retry decorator after the failed attempt attempt_number:
\* multiplier * 2 ^ exponent, held between min and max.  The exponent is
\* attempt_number - 1, or attempt_number in the older releases of tenacity
\* (first_exponent is the exponent of the first attempt).
wait_exponential(attempt_number) ==
    LET exp == 2 ^ (attempt_number - 1 + first_exponent)
        result == wait_multiplier * exp
        capped == IF result < wait_max THEN result ELSE wait_max
    IN  IF capped > wait_min THEN capped ELSE wait_min

\* The try statement of gcp around gcp_ingest, and the return of the blob.
gcp_after_ingest(outcome) ==
    IF outcome = "returned" THEN "returned"
    ELSE IF outcome = "HTTPError" THEN "returned"
    ELSE "raised"

\* One attempt of gcp_ingest, the wait that follows it when another attempt
\* is to be made, and the end of gcp when it was the last.
gcp_ingest ==
    /\ upc = "ingest"
    /\ \E response \in {"ok", "error status", "no connection"} :
         /\ params' = ingest_params(args.descriptor)
         /\ attempts' = attempts + 1
         /\ failures' = IF response = "ok" THEN failures ELSE failures + 1
         /\ last_response' = response
         /\ ingest' = retry(attempts', response)
         /\ waits' = IF ingest' = "running"
                     THEN Append(waits, wait_exponential(attempts'))
                     ELSE waits
         /\ upc' = IF ingest' = "running" THEN "ingest"
                   ELSE gcp_after_ingest(ingest')
    /\ UNCHANGED <<bucket, args, calls, uploaded, checked, latest, before,
                   ops, first_exponent>>
    /\ UNCHANGED <<generate_vars, covdir_vars>>

(***************************************************************************)
(* The uploader: gcp_covdir_exists.                                        *)
(***************************************************************************)
\* The check is made between two calls: the arguments and the locals of
\* the call that ended are gone.
gcp_covdir_exists ==
    /\ upc \in {"idle", "returned", "raised"}
    /\ \E d \in Descriptors :
         LET path == format(GCP_COVDIR_PATH, d)
         IN  checked' = [asked |-> TRUE, descriptor |-> d,
                         found |-> path \in DOMAIN bucket]
    /\ upc' = "idle"
    /\ args' = NoArgs
    /\ attempts' = 0
    /\ failures' = 0
    /\ ingest' = "none"
    /\ last_response' = "none"
    /\ params' = NoParams
    /\ before' = bucket
    /\ ops' = NoOps
    /\ waits' = <<>>
    /\ UNCHANGED <<bucket, calls, uploaded, latest, first_exponent>>
    /\ UNCHANGED <<generate_vars, covdir_vars>>

(***************************************************************************)
(* covdir_paths.  Strings are sequences of characters here, so that        *)
(* os.path.join can look at them.                                          *)
(***************************************************************************)
\* The names of the root and of the other nodes of a report.
RootNames == {<<>>, <<"s", "r", "c">>}
Names == {<<"d">>, <<"e">>, <<"f", ".", "c">>}

\* A node as the parsed JSON gives it: a file has no "children".
Node(name, kids) ==
    IF kids = <<>> THEN [name |-> name]
    ELSE [name |-> name, children |-> kids]

\* The values of the "children" of a directory, which are keyed by name:
\* the sequences of subtrees of n nodes in all, with distinct names.
RECURSIVE Forests(_)
Forests(n) ==
    IF n = 0 THEN {<<>>}
    ELSE UNION {UNION {UNION {
             {<<Node(name, kids)>> \o rest :
                 rest \in {f \in Forests(n - k) :
                              \A m \in 1..Len(f) : f[m].name # name}} :
             kids \in Forests(k - 1)} : name \in Names} : k \in 1..n}

\* The covdir reports of at most MaxNodes nodes.
CovdirReports ==
    UNION {{Node(name, kids) : name \in RootNames, kids \in Forests(n - 1)} :
             n \in 1..MaxNodes}

\* os.path.join(a, b) of posixpath.
join(a, b) ==
    IF b # <<>> /\ Head(b) = "/" THEN b
    ELSE IF a = <<>> \/ a[Len(a)] = "/" THEN a \o b
    ELSE a \o <<"/">> \o b

\* itertools.chain(*lists), as a list
RECURSIVE chain(_)
chain(lists) ==
    IF lists = <<>> THEN <<>> ELSE Head(lists) \o chain(Tail(lists))

\* obj.get("children", {}).values()
get_children(obj) ==
    IF "children" \in DOMAIN obj THEN obj.children ELSE <<>>

\* Mutant: a directory gives its own path too.
RECURSIVE _extract_with_dirs(_, _)
_extract_with_dirs(obj, base_path) ==
    LET children == get_children(obj)
    IN  IF children # <<>>
        THEN <<join(base_path, obj.name)>>
             \o chain([k \in 1..Len(children) |->
                          _extract_with_dirs(children[k],
                                             join(base_path, obj.name))])
        ELSE <<join(base_path, obj.name)>>

\* _extract(obj, base_path)
RECURSIVE _extract(_, _)
_extract(obj, base_path) ==
    LET children == get_children(obj)
    IN  IF children # <<>>
        THEN chain([k \in 1..Len(children) |->
                      _extract(children[k], join(base_path, obj.name))])
        ELSE <<join(base_path, obj.name)>>

\* covdir_paths(report)
covdir_paths ==
    /\ cpc = "called"
    /\ returned' = _extract(covdir, <<>>)
    /\ cpc' = "returned"
    /\ UNCHANGED covdir
    /\ UNCHANGED <<generate_vars, uploader_vars>>

(***************************************************************************)
(* Specifications.                                                         *)
(***************************************************************************)
UploaderIdle ==
    /\ bucket = NoBlobs
    /\ upc = "idle"
    /\ args = NoArgs
    /\ attempts = 0
    /\ ingest = "none"
    /\ params = NoParams
    /\ calls = 0
    /\ failures = 0
    /\ last_response = "none"
    /\ uploaded = {}
    /\ checked = NoCheck
    /\ latest = NoReports
    /\ before = NoBlobs
    /\ ops = NoOps
    /\ waits = <<>>

CovdirIdle ==
    /\ covdir = Node(<<>>, <<>>)
    /\ returned = <<>>
    /\ cpc = "idle"

GenerateIdle ==
    /\ remote = [status |-> 404, file |-> NoFile]
    /\ file = NoFile
    /\ reports = <<>>
    /\ pc = "load"
    /\ commit_coverage = EmptyIndex
    /\ changesets_to_analyze = <<>>
    /\ i = 1
    /\ changesets = <<>>
    /\ results = EmptyIndex
    /\ j = 0
    /\ second = FALSE
    /\ loaded = EmptyIndex
    /\ file_at_load = NoFile
    /\ analyzed = <<>>
    /\ writes = 0
    /\ prev = [index |-> EmptyIndex, reports |-> <<>>]
    /\ attributed = NoAttribution

Init ==
    /\ remote \in {[status |-> 404, file |-> NoFile],
                   [status |-> 500, file |-> NoFile],
                   [status |-> 200, file |-> CorruptFile]}
                  \cup {[status |-> 200, file |-> IndexFile(d)] :
                            d \in PublishedIndices}
    /\ file = NoFile
    /\ reports \in Listings
    /\ pc = "load"
    /\ commit_coverage = EmptyIndex
    /\ changesets_to_analyze = <<>>
    /\ i = 1
    /\ changesets = <<>>
    /\ results = EmptyIndex
    /\ j = 0
    /\ second = FALSE
    /\ loaded = EmptyIndex
    /\ file_at_load = NoFile
    /\ analyzed = <<>>
    /\ writes = 0
    /\ prev = [index |-> EmptyIndex, reports |-> <<>>]
    /\ attributed = NoAttribution
    /\ UploaderIdle
    /\ first_exponent = 0
    /\ CovdirIdle

Next ==
    \/ Load
    \/ Discover
    \/ Download
    \/ Relevance
    \/ Attribute
    \/ Merge
    \/ NextHead
    \/ Raise
    \/ Persist
    \/ Rerun

Spec == Init /\ [][Next]_vars

InitUploader ==
    /\ GenerateIdle
    /\ UploaderIdle
    /\ first_exponent \in {0, 1}
    /\ CovdirIdle

NextUploader ==
    \/ gcp_upload
    \/ gcp_patch
    \/ gcp_zero_coverage_upload
    \/ gcp_zero_coverage_patch
    \/ gcp_ingest
    \/ gcp_covdir_exists

SpecUploader == InitUploader /\ [][NextUploader]_vars

InitCovdir ==
    /\ GenerateIdle
    /\ UploaderIdle
    /\ first_exponent = 0
    /\ covdir \in CovdirReports
    /\ returned = <<>>
    /\ cpc = "called"

NextCovdir == covdir_paths

SpecCovdir == InitCovdir /\ [][NextCovdir]_vars

(***************************************************************************)
(* Properties of generate.                                                 *)
(***************************************************************************)
\* The positions of generate after discovery, in a run that has not aborted.
Discovered == {"download", "relevance", "attribute", "merge", "next",
               "persist", "done"}

\* C1: idempotence of generate.  When the second run finds the listing of
\* the first run (no new report) and loads the index the first run
\* persisted, its work queue is empty, no changeset is analyzed, and the
\* index it persists is the one the first run persisted.
C1_SecondRunIsNoOp ==
    (second /\ reports = prev.reports /\ loaded = prev.index /\ pc \in Discovered)
        => /\ changesets_to_analyze = <<>>
           /\ analyzed = <<>>
           /\ pc = "done" => file = IndexFile(prev.index)

\* C1 witness: a second run has ended, on the listing of the first run and
\* on the index the first run persisted, and the first run had analyzed a
\* head.
C1_Witness ==
    /\ second
    /\ pc = "done"
    /\ reports = prev.reports
    /\ loaded = prev.index
    /\ overall_changesets(reports) # <<>>
    /\ prev.index # EmptyIndex

\* C2 as claimed: entries are write-once.  Once a commit is a key of the
\* index, no later step of the run changes the value stored under it.
C2_WriteOnce ==
    [][(pc # "load" /\ pc' # "load")
          => \A c \in DOMAIN commit_coverage :
                 /\ c \in DOMAIN commit_coverage'
                 /\ commit_coverage'[c] = commit_coverage[c]]_vars

\* C2 as amended: a key is never removed, and the value under a key is
\* changed by one step only, the merge of that same commit as a member of
\* the relevance set of the head being processed, which stores the entry
\* computed from that head's results (null when the results lack it).
C2_ChangedOnlyByItsMerge ==
    [][(pc # "load" /\ pc' # "load")
          => \A c \in DOMAIN commit_coverage :
                 /\ c \in DOMAIN commit_coverage'
                 /\ commit_coverage'[c] # commit_coverage[c]
                        => /\ pc = "merge"
                           /\ changesets[j + 1] = c
                           /\ commit_coverage'[c] =
                                  IF c \in DOMAIN results
                                  THEN entry(results[c]) ELSE None]_vars

\* C2 witness: the value under a key of the loaded index has been changed.
C2_Witness ==
    /\ pc \in Discovered
    /\ \E c \in DOMAIN loaded : commit_coverage[c] # loaded[c]

\* The positions of the listing that discovery keeps.
KeptPositions ==
    {k \in 1..Len(reports) : /\ reports[k][2] = "-"
                             /\ reports[k][3] = "-"
                             /\ reports[k][1] \notin DOMAIN loaded}

\* C3: discovery.  The work queue is the subsequence of the listing, in
\* listing order, of the changesets whose platform and suite are both the
\* sentinel and which are not keys of the loaded index; the heads are
\* analyzed one at a time in that order, all of them in a run that ends.
C3_WorkQueue ==
    pc \in Discovered
        => /\ Len(changesets_to_analyze) = Cardinality(KeptPositions)
           /\ \A k \in KeptPositions :
                  changesets_to_analyze[Cardinality({m \in KeptPositions : m <= k})]
                      = reports[k][1]
           /\ Len(analyzed) <= Len(changesets_to_analyze)
           /\ \A n \in 1..Len(analyzed) : analyzed[n] = changesets_to_analyze[n]
           /\ pc \in {"persist", "done"} => analyzed = changesets_to_analyze

\* C3 witness: of the listing [c1, c2], c1 being a key of the loaded index,
\* the run analyzed c2 alone.
C3_Witness ==
    /\ pc = "done"
    /\ reports = <<<<"c1", "-", "-">>, <<"c2", "-", "-">>>>
    /\ DOMAIN loaded = {"c1"}
    /\ changesets_to_analyze = <<"c2">>
    /\ analyzed = <<"c2">>

\* C4: failure atomicity.  A run that aborts leaves the file as the load
\* step left it: it is not written after the load step.  A run that ends
\* has written it once, after the last head of the queue, with the full
\* in-memory index.
C4_FailureAtomicity ==
    /\ pc # "done" => writes = 0
    /\ pc = "aborted" => file = file_at_load
    /\ pc = "done" => /\ writes = 1
                      /\ file = IndexFile(commit_coverage)
                      /\ analyzed = changesets_to_analyze

\* C4 witness: a run has aborted after it had merged entries.
C4_Witness ==
    /\ pc = "aborted"
    /\ analyzed # <<>>
    /\ commit_coverage # loaded

\* C5 as claimed: the load step.  When the fetch reports 404 the index
\* begins empty, whatever the working directory holds; when it reports
\* anything else and the run has not aborted, the index is the published
\* content (so it is empty only if the published index is).
C5_EmptyOnNotFound ==
    pc = "discover"
        => /\ remote.status = 404 => commit_coverage = EmptyIndex
           /\ remote.status # 404 => commit_coverage = remote.file.data

\* The sum of a field over the paths "a.c" and "b.c" of a mapping.
Total(paths, field) ==
    (IF "a.c" \in DOMAIN paths THEN paths["a.c"][field] ELSE 0)
    + (IF "b.c" \in DOMAIN paths THEN paths["b.c"][field] ELSE 0)

\* C6: attribution sums.  The entry written for a changeset of the
\* relevance set that the results hold is {added, covered, unknown}, each
\* the sum of lines_added, lines_covered, lines_unknown over the paths;
\* no path gives {0, 0, 0}, and the paths a.c (10, 7, 1) and b.c (5, 5, 0)
\* give {15, 12, 1}.
C6_AttributionSums ==
    pc \in {"merge", "next"}
        => \A k \in 1..j :
               LET c == changesets[k]
               IN  c \in DOMAIN results
                   => /\ commit_coverage[c] =
                             [added |-> Total(results[c].paths, "lines_added"),
                              covered |-> Total(results[c].paths, "lines_covered"),
                              unknown |-> Total(results[c].paths, "lines_unknown")]
                      /\ DOMAIN results[c].paths = {}
                             => commit_coverage[c] =
                                    [added |-> 0, covered |-> 0, unknown |-> 0]
                      /\ DOMAIN results[c].paths = {"a.c", "b.c"}
                             => commit_coverage[c] =
                                    [added |-> 15, covered |-> 12, unknown |-> 1]

\* C6 witness: the entries of two changesets of one relevance set have been
\* written, one from two paths and one from no path.
C6_Witness ==
    /\ pc = "next"
    /\ j = 2
    /\ DOMAIN results = Range(changesets)
    /\ commit_coverage[changesets[1]] = [added |-> 15, covered |-> 12, unknown |-> 1]
    /\ commit_coverage[changesets[2]] = [added |-> 0, covered |-> 0, unknown |-> 0]

\* C7: attribution miss.  A changeset of the relevance set that the
\* results lack gets the entry null and the loop goes on: every member
\* merged so far is a key, all members are merged when the head ends, and
\* every head of the queue is a key when the loop over the queue ends.
C7_AttributionMiss ==
    /\ pc \in {"merge", "next"}
           => \A k \in 1..j :
                  /\ changesets[k] \in DOMAIN commit_coverage
                  /\ changesets[k] \notin DOMAIN results
                         => commit_coverage[changesets[k]] = None
    /\ pc = "next" => j = Len(changesets)
    /\ pc \in {"persist", "done"}
           => Range(changesets_to_analyze) \subseteq DOMAIN commit_coverage

\* C7 witness: after a miss on the first changeset of a relevance set the
\* second was merged from the results, and the run went on to the second
\* head of the queue.
C7_Witness ==
    /\ pc = "next"
    /\ i = 2
    /\ Len(changesets) = 2
    /\ changesets[1] \notin DOMAIN results
    /\ changesets[2] \in DOMAIN results
    /\ commit_coverage[changesets[1]] = None

(***************************************************************************)
(* Properties of the uploader.                                             *)
(***************************************************************************)
\* C8: bounded retry of gcp_ingest.  The call makes at most 10 requests
\* and goes on only after a failure.  It raises only after 10 failed
\* requests out of 10, and raises the failure of the 10th; it returns
\* after the first request that succeeds, the N-th of N, the N - 1 before
\* it having failed.
C8_BoundedRetry ==
    /\ attempts <= 10
    /\ ingest = "running"
           => attempts < 10 /\ failures = attempts /\ upc = "ingest"
    /\ ingest = "returned"
           => /\ attempts \in 1..10
              /\ failures = attempts - 1
              /\ last_response = "ok"
    /\ ingest \in {"HTTPError", "ConnectionError"}
           => /\ attempts = 10
              /\ failures = 10
              /\ last_response = "error status" <=> ingest = "HTTPError"
              /\ last_response = "no connection" <=> ingest = "ConnectionError"

\* C8 witness: gcp_ingest has raised after 10 failed requests.
C8_Witness ==
    /\ ingest = "HTTPError"
    /\ attempts = 10
    /\ failures = 10

\* C9 as claimed: when gcp_ingest ends in failure after its retries, gcp
\* does not raise: it returns the blob, which stays in the bucket.
C9_IngestionFailureNonFatal ==
    ingest \in {"HTTPError", "ConnectionError"}
        => /\ upc = "returned"
           /\ format(GCP_COVDIR_PATH, args.descriptor) \in DOMAIN bucket
           /\ bucket[format(GCP_COVDIR_PATH, args.descriptor)].data
                  = compress(args.report)

\* C10: the object-store key.  The covdir blobs of the bucket (all but the
\* zero-coverage report) are under the keys
\* repository/revision/platform:suite.json.zstd of the descriptors gcp
\* has uploaded, and under no other key; gcp_covdir_exists of an uploaded
\* descriptor finds its blob; the key of (mozilla-central, abc123, linux,
\* mochitest) is "mozilla-central/abc123/linux:mochitest.json.zstd".
C10_ObjectStoreKey ==
    /\ DOMAIN bucket \ {"zero_coverage_report.json.zstd"} =
           {d.repository \o "/" \o d.revision \o "/" \o d.platform \o ":"
                \o d.suite \o ".json.zstd" : d \in uploaded}
    /\ (checked.asked /\ checked.descriptor \in uploaded) => checked.found
    /\ [repository |-> "mozilla-central", revision |-> "abc123",
        platform |-> "linux", suite |-> "mochitest"] \in uploaded
           => "mozilla-central/abc123/linux:mochitest.json.zstd" \in DOMAIN bucket

\* C10 witness: gcp has uploaded (mozilla-central, abc123, linux,
\* mochitest) and gcp_covdir_exists has found it.
C10_Witness ==
    /\ checked.asked
    /\ checked.found
    /\ checked.descriptor = [repository |-> "mozilla-central", revision |-> "abc123",
                             platform |-> "linux", suite |-> "mochitest"]
    /\ checked.descriptor \in uploaded

\* The key of a descriptor, written out.
KeyOf(d) ==
    d.repository \o "/" \o d.revision \o "/" \o d.platform \o ":"
        \o d.suite \o ".json.zstd"

\* The blob a call leaves when it has written and patched the report.
Published(report) ==
    [data |-> [zstd |-> report], content_type |-> "application/json",
     content_encoding |-> "zstd"]

\* C11: the upload is an idempotent overwrite.  Under the key of every
\* descriptor gcp has uploaded there is one blob, whose content is the
\* compressed report of the most recent gcp call with that descriptor; once
\* gcp has written, the blob of its key holds its report; gcp never
\* changes, adds or removes the blob of another key; and a gcp call that
\* returns, made with the descriptor and the report of a blob a call had
\* published, leaves the bucket as it was.
C11_LastWriteWins ==
    /\ \A d \in uploaded :
          /\ KeyOf(d) \in DOMAIN bucket
          /\ KeyOf(d) \in DOMAIN latest
          /\ bucket[KeyOf(d)].data = [zstd |-> latest[KeyOf(d)]]
    /\ args.fn = "gcp" =>
          /\ upc \in {"patch", "ingest", "returned"}
                => /\ KeyOf(args.descriptor) \in DOMAIN bucket
                   /\ bucket[KeyOf(args.descriptor)].data = [zstd |-> args.report]
                   /\ latest[KeyOf(args.descriptor)] = args.report
          /\ DOMAIN bucket \subseteq DOMAIN before \cup {KeyOf(args.descriptor)}
          /\ \A path \in DOMAIN before :
                path # KeyOf(args.descriptor)
                    => path \in DOMAIN bucket /\ bucket[path] = before[path]
          /\ ( /\ upc = "returned"
               /\ KeyOf(args.descriptor) \in DOMAIN before
               /\ before[KeyOf(args.descriptor)] = Published(args.report) )
                => bucket = before

\* C11 witness: a gcp call has returned after replacing the blob of its
\* key, which held another report.
C11_Witness ==
    /\ args.fn = "gcp"
    /\ upc = "returned"
    /\ KeyOf(args.descriptor) \in DOMAIN before
    /\ before[KeyOf(args.descriptor)].data # [zstd |-> args.report]
    /\ bucket[KeyOf(args.descriptor)] = Published(args.report)

\* C12: the zero-coverage report has one fixed key.  A gcp_zero_coverage
\* call writes under "zero_coverage_report.json.zstd" only: it leaves
\* every other blob as it was and adds no other key; it sends no ingestion
\* request; once it has written, the key holds its report, and at any
\* time the key holds the report of the last call that wrote it.
C12_ZeroCoverageFrame ==
    /\ "zero_coverage_report.json.zstd" \in DOMAIN latest
          => /\ "zero_coverage_report.json.zstd" \in DOMAIN bucket
             /\ bucket["zero_coverage_report.json.zstd"].data
                    = [zstd |-> latest["zero_coverage_report.json.zstd"]]
    /\ args.fn = "gcp_zero_coverage" =>
          /\ upc \in {"zero_patch", "returned"}
                => /\ "zero_coverage_report.json.zstd" \in DOMAIN bucket
                   /\ bucket["zero_coverage_report.json.zstd"].data
                          = [zstd |-> args.report]
                   /\ "zero_coverage_report.json.zstd" \in DOMAIN latest
                   /\ latest["zero_coverage_report.json.zstd"] = args.report
          /\ DOMAIN bucket
                \subseteq DOMAIN before \cup {"zero_coverage_report.json.zstd"}
          /\ \A path \in DOMAIN before :
                path # "zero_coverage_report.json.zstd"
                    => path \in DOMAIN bucket /\ bucket[path] = before[path]
          /\ attempts = 0
          /\ ingest = "none"
          /\ params = NoParams

\* C12 witness: gcp_zero_coverage has returned in a bucket that holds a
\* covdir report.
C12_Witness ==
    /\ args.fn = "gcp_zero_coverage"
    /\ upc = "returned"
    /\ bucket["zero_coverage_report.json.zstd"] = Published(args.report)
    /\ \E d \in uploaded : KeyOf(d) \in DOMAIN before

\* The key the call in progress writes.
KeyOfCall ==
    IF args.fn = "gcp" THEN KeyOf(args.descriptor)
    ELSE "zero_coverage_report.json.zstd"

\* C13 as claimed: once a call has ended, by a return or by an exception,
\* every blob of the bucket carries the content type "application/json"
\* and the content encoding "zstd".
C13_MetadataWheneverEnded ==
    upc \in {"returned", "raised"}
        => \A path \in DOMAIN bucket :
              /\ bucket[path].content_type = "application/json"
              /\ bucket[path].content_encoding = "zstd"

\* C13, amended: the metadata is set by the patch step, which follows the
\* write.  Between the write and the patch the blob carries the metadata
\* of a plain upload; once the patch has succeeded (the call has returned,
\* or gcp is at the ingestion step or has raised from it) the blob carries
\* "application/json" and "zstd"; when the patch raises, the call raises
\* and the blob keeps the metadata of the plain upload; when the write
\* raises, the bucket is as it was.
C13_MetadataAfterPatch ==
    args.fn # "none" =>
        /\ upc \in {"patch", "zero_patch"}
              => bucket[KeyOfCall] =
                     [data |-> [zstd |-> args.report],
                      content_type |-> "text/plain", content_encoding |-> ""]
        /\ (upc \in {"ingest", "returned"} \/ (upc = "raised" /\ ingest # "none"))
              => bucket[KeyOfCall] = Published(args.report)
        /\ (upc = "raised" /\ ingest = "none" /\ ops.patch = 1)
              => bucket[KeyOfCall] =
                     [data |-> [zstd |-> args.report],
                      content_type |-> "text/plain", content_encoding |-> ""]
        /\ (upc = "raised" /\ ops.patch = 0) => bucket = before

\* C13 witness: gcp has raised from the ingestion step, and the blob it
\* wrote carries the metadata.
C13_Witness ==
    /\ args.fn = "gcp"
    /\ upc = "raised"
    /\ ingest = "ConnectionError"
    /\ bucket[KeyOf(args.descriptor)] = Published(args.report)

\* C15: upload, then notify.  In a gcp call the write and the patch are
\* attempted at most once each, the patch only after the write; a request
\* to the ingestion endpoint is sent only after one write and one patch,
\* the blob being in the bucket with its metadata; when the write or the
\* patch has raised, gcp has raised and no request has been sent.
C15_UploadThenNotify ==
    args.fn = "gcp" =>
        /\ ops.upload = 1
        /\ ops.patch \in {0, 1}
        /\ (attempts > 0 \/ ingest # "none" \/ params # NoParams)
              => /\ ops = [upload |-> 1, patch |-> 1]
                 /\ KeyOf(args.descriptor) \in DOMAIN bucket
                 /\ bucket[KeyOf(args.descriptor)] = Published(args.report)
        /\ upc = "patch" => ops.patch = 0 /\ attempts = 0
        /\ upc = "ingest" => ops.patch = 1
        /\ (ops.patch = 0 /\ upc # "patch")
              => upc = "raised" /\ attempts = 0 /\ params = NoParams
        /\ ( /\ ops.patch = 1
             /\ bucket[KeyOf(args.descriptor)] # Published(args.report) )
              => upc = "raised" /\ attempts = 0 /\ params = NoParams

\* C15 witness: the patch of a gcp call has raised after the write; gcp
\* has raised and no request was sent.
C15_Witness ==
    /\ args.fn = "gcp"
    /\ upc = "raised"
    /\ ops = [upload |-> 1, patch |-> 1]
    /\ KeyOf(args.descriptor) \in DOMAIN bucket
    /\ bucket[KeyOf(args.descriptor)].content_type = "text/plain"
    /\ attempts = 0

\* The smaller of two numbers.
Min(a, b) == IF a < b THEN a ELSE b

\* C16 as claimed: the wait after the failed attempt k is
\* min(64, 16 * 2^(k - 1)): 16, 32, 64, 64, ...
C16_DoublingFrom16 ==
    \A k \in 1..Len(waits) : waits[k] = Min(64, 16 * 2 ^ (k - 1))

\* C16, amended: the wait after the failed attempt k is 2^(k - 1) (2^k with
\* the older releases of tenacity) held between 16 and 64: the waits of a
\* call are the first ones of 16, 16, 16, 16, 16, 32, 64, 64, 64 (of 16,
\* 16, 16, 16, 32, 64, 64, 64, 64).  There is one wait after every failed
\* attempt but the 10th, none after a success, and no wait is below 16 or
\* above 64.
C16_BackoffWaits ==
    /\ \A k \in 1..Len(waits) : waits[k] >= 16 /\ waits[k] <= 64
    /\ \E schedule \in {<<16, 16, 16, 16, 16, 32, 64, 64, 64>>,
                          <<16, 16, 16, 16, 32, 64, 64, 64, 64>>} :
          /\ Len(waits) <= Len(schedule)
          /\ waits = SubSeq(schedule, 1, Len(waits))
    /\ ingest = "none" => waits = <<>>
    /\ ingest = "running" => Len(waits) = attempts
    /\ ingest = "returned" => Len(waits) = attempts - 1
    /\ ingest \in {"HTTPError", "ConnectionError"} => Len(waits) = 9

\* C16 witness: gcp_ingest has raised after 10 failed attempts and the 9
\* waits between them.
C16_Witness ==
    /\ ingest \in {"HTTPError", "ConnectionError"}
    /\ attempts = 10
    /\ Len(waits) = 9
    /\ waits[2] = 16
    /\ waits[9] = 64

\* C17 as claimed: a request carries the platform exactly when the
\* platform is neither empty nor the sentinel, and likewise the suite.
C17_NoSentinelParameter ==
    attempts > 0 =>
        /\ "platform" \in DOMAIN params
              <=> args.descriptor.platform \notin {"", DEFAULT_FILTER}
        /\ "suite" \in DOMAIN params
              <=> args.descriptor.suite \notin {"", DEFAULT_FILTER}

\* C17, amended: every request carries the repository and the changeset;
\* it carries the platform exactly when the platform is not empty, and
\* likewise the suite: the sentinel is sent like any other value.  The
\* values are those of the descriptor, and there is no other parameter.
C17_QueryParameters ==
    attempts > 0 =>
        /\ {"repository", "changeset"} \subseteq DOMAIN params
        /\ DOMAIN params \subseteq {"repository", "changeset", "platform", "suite"}
        /\ params["repository"] = args.descriptor.repository
        /\ params["changeset"] = args.descriptor.revision
        /\ "platform" \in DOMAIN params <=> args.descriptor.platform # ""
        /\ "platform" \in DOMAIN params
              => params["platform"] = args.descriptor.platform
        /\ "suite" \in DOMAIN params <=> args.descriptor.suite # ""
        /\ "suite" \in DOMAIN params
              => params["suite"] = args.descriptor.suite

\* C17 witness: a request of an overall report was sent, with the sentinel
\* as its platform and as its suite.
C17_Witness ==
    /\ attempts > 0
    /\ args.descriptor.platform = DEFAULT_FILTER
    /\ "platform" \in DOMAIN params
    /\ params["platform"] = DEFAULT_FILTER
    /\ "suite" \in DOMAIN params
    /\ params["suite"] = DEFAULT_FILTER

(***************************************************************************)
(* Further properties of generate.                                         *)
(***************************************************************************)
\* The heads of the work queue whose attribution has been made.
AttributedHeads ==
    {changesets_to_analyze[k] :
        k \in {n \in 1..Len(changesets_to_analyze) :
                  n < i \/ (n = i /\ pc \in {"merge", "next", "persist", "done"})}}

\* C18: the keys of the index only grow.  At every point of a run the
\* in-memory index holds every key of the loaded index, and no key but
\* those and the members of the relevance sets of the heads attributed so
\* far; when the loop has ended the keys are exactly these, and the file
\* the run persists holds exactly these keys.
C18_KeysOnlyGrow ==
    /\ DOMAIN loaded \subseteq DOMAIN commit_coverage
    /\ DOMAIN commit_coverage \subseteq DOMAIN loaded \cup DOMAIN attributed
    /\ \A c \in DOMAIN attributed : attributed[c].head \in AttributedHeads
    /\ pc \in {"merge", "next"}
          => /\ Range(changesets) \subseteq DOMAIN attributed
             /\ \A k \in 1..j : changesets[k] \in DOMAIN commit_coverage
    /\ pc \in {"next", "persist", "done"}
          => DOMAIN commit_coverage = DOMAIN loaded \cup DOMAIN attributed
    /\ pc = "done"
          => /\ file.present
             /\ file.valid
             /\ DOMAIN file.data = DOMAIN loaded \cup DOMAIN attributed

\* C18 witness: a run has persisted an index that holds a loaded key, a
\* head, and a member of the relevance set of the head that is neither.
C18_Witness ==
    /\ pc = "done"
    /\ DOMAIN loaded # {}
    /\ \E c \in DOMAIN attributed :
          /\ c \notin DOMAIN loaded
          /\ c # attributed[c].head
          /\ attributed[c].head \notin DOMAIN loaded
    /\ Cardinality(DOMAIN file.data) = 3

\* The entry of what the result of a head held for a commit.
ValueOf(coverage) ==
    IF coverage = None THEN None
    ELSE [added |-> Total(coverage.paths, "lines_added"),
          covered |-> Total(coverage.paths, "lines_covered"),
          unknown |-> Total(coverage.paths, "lines_unknown")]

\* C19: the last head wins.  The heads are attributed in the order of the
\* work queue, so the head recorded for a commit is the last one so far
\* whose relevance set held the commit: while a head is merged it is the
\* head recorded for every member of its relevance set.  When the loop
\* has ended, the value of every such commit, in memory and in the file
\* the run persists, is the entry of what the result of that head held for
\* it (null if it held nothing), whatever the index held before; a loaded
\* key that was in no relevance set keeps its loaded value.
C19_LastHeadWins ==
    /\ pc \in {"merge", "next"}
          => \A c \in Range(changesets) :
                /\ attributed[c].head = changesets_to_analyze[i]
                /\ attributed[c].coverage = get(results, c)
    /\ pc \in {"persist", "done"}
          => /\ \A c \in DOMAIN attributed :
                   /\ c \in DOMAIN commit_coverage
                   /\ commit_coverage[c] = ValueOf(attributed[c].coverage)
             /\ \A c \in DOMAIN loaded \ DOMAIN attributed :
                   commit_coverage[c] = loaded[c]
    /\ pc = "done" => file.data = commit_coverage

\* C19 witness: a run of two heads has persisted; the first head was also
\* in the relevance set of the second, whose result held the paths a.c
\* and b.c for it, and the file holds the entry of that result.
C19_Witness ==
    /\ pc = "done"
    /\ Len(changesets_to_analyze) = 2
    /\ attributed[changesets_to_analyze[1]].head = changesets_to_analyze[2]
    /\ attributed[changesets_to_analyze[1]].coverage # None
    /\ file.data[changesets_to_analyze[1]] = [added |-> 15, covered |-> 12, unknown |-> 1]

(***************************************************************************)
(* Properties of covdir_paths.                                             *)
(***************************************************************************)
\* The nodes below a node.
Kids(node) == IF "children" \in DOMAIN node THEN node.children ELSE <<>>

\* The number of file leaves of a tree.
RECURSIVE LeafCount(_)
LeafCount(node) ==
    IF Kids(node) = <<>> THEN 1
    ELSE LET RECURSIVE Sum(_)
             Sum(k) == IF k = 0 THEN 0
                       ELSE LeafCount(Kids(node)[k]) + Sum(k - 1)
         IN  Sum(Len(Kids(node)))

\* The sequences of names from a node down to its file leaves, and down to
\* its directories.
RECURSIVE LeafChains(_)
LeafChains(node) ==
    IF Kids(node) = <<>> THEN {<<node.name>>}
    ELSE UNION {{<<node.name>> \o c : c \in LeafChains(Kids(node)[k])} :
                  k \in 1..Len(Kids(node))}

RECURSIVE DirChains(_)
DirChains(node) ==
    IF Kids(node) = <<>> THEN {}
    ELSE {<<node.name>>}
         \cup UNION {{<<node.name>> \o c : c \in DirChains(Kids(node)[k])} :
                       k \in 1..Len(Kids(node))}

\* Names joined as the segments of a path; the empty name of a root adds
\* no segment.
RECURSIVE Segments(_)
Segments(names) ==
    IF names = <<>> THEN <<>>
    ELSE LET rest == Segments(Tail(names))
         IN  IF Head(names) = <<>> THEN rest
             ELSE IF rest = <<>> THEN Head(names)
             ELSE Head(names) \o <<"/">> \o rest

\* C14: covdir_paths flattens the tree.  For a tree whose nodes are
\* directories with at least one child or file leaves, the call returns as
\* many paths as the tree has file leaves, no path twice; the paths are
\* those of the leaves, each the names from the root down to the leaf
\* joined as path segments; and the path of no directory is returned.
C14_OnePathPerLeaf ==
    cpc = "returned" =>
        /\ Len(returned) = LeafCount(covdir)
        /\ Cardinality(Range(returned)) = Len(returned)
        /\ Range(returned) = {Segments(c) : c \in LeafChains(covdir)}
        /\ \A c \in DirChains(covdir) : Segments(c) \notin Range(returned)

\* C14 witness: covdir_paths has returned the two paths src/d/f.c and
\* src/e of a tree of two directories and two files.
C14_Witness ==
    /\ cpc = "returned"
    /\ covdir.name = <<"s", "r", "c">>
    /\ returned = << <<"s", "r", "c", "/", "d", "/", "f", ".", "c">>,
                     <<"s", "r", "c", "/", "e">> >>

====
